---- MODULE Spec2Model ----
(***************************************************************************)
(* Model of src/example/pegtl/json_build_one.cpp: the JSON tree builder    *)
(* driven by the PEGTL JSON grammar.  The builder states (result_state,    *)
(* string_state, array_state, object_state) and their actions are          *)
(* modelled from the source; the grammar (tao/pegtl/contrib/json.hpp), the *)
(* state-changing controls (contrib/changes.hpp), the value classes        *)
(* (json_classes.hpp) and the escape decoder (json_unescape.hpp) are       *)
(* collaborators modelled by the order of events they produce.             *)
(*                                                                         *)
(* The input is a sequence of tokens; whitespace is not modelled.  A       *)
(* string token carries its raw content as a sequence of pieces (a plain   *)
(* character or one escape sequence), a number token carries its           *)
(* characters.                                                             *)
(***************************************************************************)
EXTENDS Integers, Sequences, FiniteSets, TLC

VARIABLES
    argv,       \* main: the files named on the command line (token texts)
    free,       \* TRUE: the file's content is any token text within the bounds
    argi,       \* main: the loop variable i, as an index into argv
    pc,         \* where the program is: main's loop or a grammar position
    result,     \* main: the result_state of the current iteration
    stack,      \* the rule-scoped states of the open rules, innermost last
    pieces,     \* the raw pieces of the string being scanned, not yet read
    la,         \* the token the grammar has looked at but not consumed
    consumed,   \* the tokens of the current file consumed so far
    nscalars,   \* how many scalar values consumed holds
    err,        \* the error of the failed parse
    out,        \* what main has printed: one entry per successful parse
    hist,       \* history, per entry of stack: the values handed in, separators seen
    lastClose   \* history: the last composite rule that closed

vars == <<argv, free, argi, pc, result, stack, pieces, la, consumed, nscalars,
          err, out, hist, lastClose>>

(***************************************************************************)
(* Bounds of the model.                                                    *)
(***************************************************************************)
MaxLen == 9         \* tokens in a file
MaxDepth == 4       \* open composite rules
MaxScalars == 2     \* scalar values in a file
MaxRuns == 3        \* files on the command line (the multi-file specification)
LDBL_MAX == 1000    \* largest value a long double holds, scaled down

(***************************************************************************)
(* Values: std::shared_ptr< json_base >.                                   *)
(***************************************************************************)
None == [type |-> "nullptr"]
null_json == [type |-> "null"]
boolean_json(b) == [type |-> "boolean", bool |-> b]
number_json(v) == [type |-> "number", num |-> v]
string_json(s) == [type |-> "string", str |-> s]
array_json(d) == [type |-> "array", elems |-> d]
object_json(m) == [type |-> "object", members |-> m]

EmptyMap == [k \in {} |-> None]

\* A map insertion that replaces the value of a key already present.
map_insert_overwrite(m, k, v) == [x \in DOMAIN m \cup {k} |-> IF x = k THEN v ELSE m[x]]

\* data.insert( std::make_pair( k, v ) ): a key already present keeps its value
\* and the pair is dropped.
map_insert(m, k, v) ==
    IF k \in DOMAIN m THEN m
    ELSE [x \in DOMAIN m \cup {k} |-> IF x = k THEN v ELSE m[x]]

(***************************************************************************)
(* Tokens.                                                                 *)
(***************************************************************************)
Tok(k, v) == [k |-> k, v |-> v]
NoTok == Tok("none", <<>>)
Eof == Tok("eof", <<>>)

NumberTexts == {<<"7">>, <<"1", "e", "1">>, <<"9", "e", "4">>}
\* The last text holds an escape that json::escaped does not match.
StringTexts == {<<"a">>, <<"a", "b">>, <<"\\n">>, <<"a", "\\q">>}

Literals == {Tok(k, <<>>) : k \in {"null", "true", "false"}}
Numbers == {Tok("number", t) : t \in NumberTexts}
Strings == {Tok("string", t) : t \in StringTexts}
Scalars == Literals \cup Numbers \cup Strings
Puncts == {Tok(k, <<>>) : k \in {"[", "]", "{", "}", ",", ":"}}
Tokens == Puncts \cup Scalars

StartsValue(tok) == tok.k \in {"null", "true", "false", "number", "string", "[", "{"}

(***************************************************************************)
(* Conversions.                                                            *)
(***************************************************************************)
DigitVal(c) ==
    CASE c = "0" -> 0 [] c = "1" -> 1 [] c = "2" -> 2 [] c = "3" -> 3 [] c = "4" -> 4
      [] c = "5" -> 5 [] c = "6" -> 6 [] c = "7" -> 7 [] c = "8" -> 8 [] c = "9" -> 9

RECURSIVE DecVal(_)
DecVal(ds) ==
    IF ds = <<>> THEN 0
    ELSE DecVal(SubSeq(ds, 1, Len(ds) - 1)) * 10 + DigitVal(ds[Len(ds)])

RECURSIVE Pow10(_)
Pow10(n) == IF n = 0 THEN 1 ELSE 10 * Pow10(n - 1)

EPos(t) == IF \E i \in 1..Len(t) : t[i] = "e"
           THEN CHOOSE i \in 1..Len(t) : t[i] = "e" ELSE 0

\* The exact value of a number text: digits, then optionally e and digits.
Exact(t) ==
    IF EPos(t) = 0 THEN DecVal(t)
    ELSE DecVal(SubSeq(t, 1, EPos(t) - 1)) * Pow10(DecVal(SubSeq(t, EPos(t) + 1, Len(t))))

\* ss >> v: a value too large stores the largest value and sets failbit.
ss_extract(t) ==
    IF Exact(t) > LDBL_MAX THEN [v |-> LDBL_MAX, failbit |-> TRUE]
    ELSE [v |-> Exact(t), failbit |-> FALSE]

\* A piece json::char_ matches: a plain character or a known escape.
ValidPiece(p) == p # "\\q"
ValidText(t) == \A i \in 1..Len(t) : ValidPiece(t[i])

\* unescape_action: what one raw piece appends to unescaped.
Unescape(p) == IF p = "\\n" THEN <<"\n">> ELSE <<p>>

RECURSIVE Decode(_)
Decode(ps) == IF ps = <<>> THEN <<>> ELSE Unescape(Head(ps)) \o Decode(Tail(ps))

(***************************************************************************)
(* The states and their member functions.                                  *)
(***************************************************************************)
\* A result declared outside main's loop: the previous iteration's state.
result_state_reuse(prev) == prev

\* examples::result_state result; inside the loop: a fresh, empty state.
result_state_ctor(prev) == [kind |-> "result", result |-> None]

string_state_ctor == [kind |-> "string", unescaped |-> <<>>]

\* success with a defect: the text goes through the key buffer of an enclosing
\* object_state.
string_state_success_key(s, st) ==
    IF st.kind = "object"
    THEN [st EXCEPT !.result = string_json(s.unescaped), !.unescaped = s.unescaped]
    ELSE [st EXCEPT !.result = string_json(s.unescaped)]

string_state_success(s, st) == [st EXCEPT !.result = string_json(s.unescaped)]

\* The null action with a defect: no value is made, the slot is left as it is.
value_action_null_skip(st) == st

value_action_null(st) == [st EXCEPT !.result = null_json]
value_action_true(st) == [st EXCEPT !.result = boolean_json(TRUE)]
value_action_false(st) == [st EXCEPT !.result = boolean_json(FALSE)]
value_action_number(in, st) == [st EXCEPT !.result = number_json(ss_extract(in).v)]

array_state_ctor == [kind |-> "array", result |-> None, array |-> <<>>]

\* push_back with a defect: the slot not cleared, the value not appended, the
\* value put in front.
push_back_keep(s) == [s EXCEPT !.array = Append(@, s.result)]
push_back_drop(s) == [s EXCEPT !.result = None]
push_back_front(s) == [s EXCEPT !.array = <<s.result>> \o @, !.result = None]
push_back(s) == [s EXCEPT !.array = Append(@, s.result), !.result = None]

\* success with a defect: push_back without the test of the slot, no handoff.
array_state_success_always(s, in_result) ==
    [in_result EXCEPT !.result = array_json(push_back(s).array)]
array_state_success_nohand(s, in_result) == in_result
array_state_success(s, in_result) ==
    LET t == IF s.result # None THEN push_back(s) ELSE s
    IN  [in_result EXCEPT !.result = array_json(t.array)]

array_action_value_separator(st) == push_back(st)

object_state_ctor ==
    [kind |-> "object", result |-> None, unescaped |-> <<>>, object |-> EmptyMap]

\* insert with a defect: the key copied, not moved, and unescaped not cleared.
insert_keepkey(s) ==
    [s EXCEPT !.object = map_insert(@, s.unescaped, s.result), !.result = None]

\* insert with a defect: result copied into the pair, not moved, and not reset.
insert_copy(s) ==
    [s EXCEPT !.object = map_insert(@, s.unescaped, s.result), !.unescaped = <<>>]

insert(s) ==
    [s EXCEPT !.object = map_insert(@, s.unescaped, s.result),
              !.unescaped = <<>>, !.result = None]

object_state_success(s, in_result) ==
    LET t == IF s.result # None THEN insert(s) ELSE s
    IN  [in_result EXCEPT !.result = object_json(t.object)]

object_action_value_separator(st) == insert(st)

\* object_action< Rule > : unescape_action< Rule >, value_action likewise.
unescape_append(st, p) == [st EXCEPT !.unescaped = @ \o Unescape(p)]

(***************************************************************************)
(* The input the grammar reads.                                            *)
(***************************************************************************)
Avail ==
    IF free
    THEN IF Len(consumed) < MaxLen THEN Tokens \cup {Eof} ELSE {Eof}
    ELSE {IF Len(consumed) < Len(argv[argi]) THEN argv[argi][Len(consumed) + 1] ELSE Eof}

NextToks == IF la # NoTok THEN {la} ELSE Avail

Composites(stk) == Cardinality({i \in 1..Len(stk) : stk[i].kind # "string"})

\* Where a value may start: a free file stays within MaxScalars and MaxDepth.
ValueToks ==
    {t \in NextToks :
        free => /\ (t \in Scalars => nscalars < MaxScalars)
                /\ (t.k \in {"[", "{"} => Composites(stack) < MaxDepth)}

Consume(tok) ==
    /\ consumed' = Append(consumed, tok)
    /\ la' = NoTok

Front(s) == SubSeq(s, 1, Len(s) - 1)
Top(stk) == IF stk = <<>> THEN result ELSE stk[Len(stk)]
\* What a rule-scoped state has been through: the values handed to it, the
\* separators it handled, the keys read for it (from the text, decoded), and
\* what unescaped and the slot held each time a commit was due.
NoHist == [handed |-> <<>>, seps |-> 0, keys |-> <<>>, commits |-> <<>>]

KeyOf(s) == IF s.kind = "object" THEN s.unescaped ELSE <<>>

\* A commit is due for state s: at a separator, and at a close with the slot
\* occupied.
Commit(h, s) == [h EXCEPT !.commits = Append(@, [key |-> KeyOf(s), value |-> s.result])]
AtSeparator(h, s) == Commit([h EXCEPT !.seps = @ + 1], s)
AtClose(h, s) == IF s.result # None THEN Commit(h, s) ELSE h

\* The handoff with a defect: the outermost rule-scoped state is written, not
\* the innermost.
Handoff_outer(stk, hs, st) ==
    IF stk = <<>>
    THEN /\ result' = st
         /\ stack' = stk
         /\ hist' = hs
    ELSE /\ stack' = [stk EXCEPT ![1] = st]
         /\ hist' = [hs EXCEPT ![1].handed = Append(@, st.result)]
         /\ UNCHANGED result

\* The state a nested rule's action or success writes to: the innermost state
\* of stk, or main's result when no rule-scoped state is open.
Handoff(stk, hs, st) ==
    IF stk = <<>>
    THEN /\ result' = st
         /\ stack' = stk
         /\ hist' = hs
    ELSE /\ stack' = [stk EXCEPT ![Len(stk)] = st]
         /\ hist' = [hs EXCEPT ![Len(stk)].handed = Append(@, st.result)]
         /\ UNCHANGED result

\* The grammar position after a value, by the rule that encloses it.
AfterValue(stk) ==
    IF stk = <<>> THEN "eof"
    ELSE IF stk[Len(stk)].kind = "array" THEN "arr_next" ELSE "obj_next"

ValuePos == {"text", "elem_opt", "elem_must", "member_value"}

(***************************************************************************)
(* main.                                                                   *)
(***************************************************************************)
StartParse ==
    /\ pc = "loop"
    /\ argi <= Len(argv)
    /\ result' = result_state_ctor(result)
    /\ stack' = <<>>
    /\ hist' = <<>>
    /\ pieces' = <<>>
    /\ la' = NoTok
    /\ consumed' = <<>>
    /\ nscalars' = 0
    /\ err' = "none"
    /\ lastClose' = [kind |-> "none", handed |-> 0, value |-> None, h |-> NoHist]
    /\ pc' = "text"
    /\ UNCHANGED <<argv, free, argi, out>>

LoopExit ==
    /\ pc = "loop"
    /\ argi > Len(argv)
    /\ pc' = "exit"
    /\ UNCHANGED <<argv, free, argi, result, stack, pieces, la, consumed, nscalars,
                   err, out, hist, lastClose>>

\* assert( result.result ); std::cout << result.result; ++i
AssertPrint ==
    /\ pc = "returned"
    /\ IF result.result = None
       THEN /\ pc' = "abort"
            /\ UNCHANGED <<argi, out>>
       ELSE /\ pc' = "loop"
            /\ argi' = argi + 1
            /\ out' = Append(out, [text |-> consumed, tree |-> result.result])
    /\ UNCHANGED <<argv, free, result, stack, pieces, la, consumed, nscalars,
                   err, hist, lastClose>>

(***************************************************************************)
(* json::value under control< value >: the scalar actions.                 *)
(***************************************************************************)
ScalarStep(tok, st) ==
    /\ Consume(tok)
    /\ nscalars' = nscalars + 1
    /\ Handoff(stack, hist, st)
    /\ pc' = AfterValue(stack)
    /\ UNCHANGED <<argv, free, argi, pieces, err, out, lastClose>>

ValueNull ==
    /\ pc \in ValuePos
    /\ \E tok \in ValueToks :
        /\ tok.k = "null"
        /\ ScalarStep(tok, value_action_null(Top(stack)))

ValueTrue ==
    /\ pc \in ValuePos
    /\ \E tok \in ValueToks :
        /\ tok.k = "true"
        /\ ScalarStep(tok, value_action_true(Top(stack)))

ValueFalse ==
    /\ pc \in ValuePos
    /\ \E tok \in ValueToks :
        /\ tok.k = "false"
        /\ ScalarStep(tok, value_action_false(Top(stack)))

ValueNumber ==
    /\ pc \in ValuePos
    /\ \E tok \in ValueToks :
        /\ tok.k = "number"
        /\ ScalarStep(tok, value_action_number(tok.v, Top(stack)))

(***************************************************************************)
(* json::string under control< string::content >: a string_state for the   *)
(* content rule.                                                           *)
(***************************************************************************)
EnterString ==
    /\ pc \in ValuePos
    /\ \E tok \in ValueToks :
        /\ tok.k = "string"
        /\ Consume(tok)
        /\ pieces' = tok.v
    /\ nscalars' = nscalars + 1
    /\ stack' = Append(stack, string_state_ctor)
    /\ hist' = Append(hist, NoHist)
    /\ pc' = "string"
    /\ UNCHANGED <<argv, free, argi, result, err, out, lastClose>>

UnescapeChar ==
    /\ pc = "string"
    /\ pieces # <<>>
    /\ ValidPiece(Head(pieces))
    /\ stack' = [stack EXCEPT ![Len(stack)] = unescape_append(@, Head(pieces))]
    /\ pieces' = Tail(pieces)
    /\ UNCHANGED <<argv, free, argi, pc, result, la, consumed, nscalars, err, out,
                   hist, lastClose>>

StringSuccess ==
    /\ pc = "string"
    /\ pieces = <<>>
    /\ Handoff(Front(stack), Front(hist),
               string_state_success(stack[Len(stack)], Top(Front(stack))))
    /\ pc' = AfterValue(Front(stack))
    /\ UNCHANGED <<argv, free, argi, pieces, la, consumed, nscalars, err, out,
                   lastClose>>

(***************************************************************************)
(* json::array under control< array::content >: an array_state and         *)
(* array_action for the content rule, then must< end_array >.              *)
(***************************************************************************)
EnterArray ==
    /\ pc \in ValuePos
    /\ \E tok \in ValueToks :
        /\ tok.k = "["
        /\ Consume(tok)
    /\ stack' = Append(stack, array_state_ctor)
    /\ hist' = Append(hist, NoHist)
    /\ pc' = "elem_opt"
    /\ UNCHANGED <<argv, free, argi, result, pieces, nscalars, err, out, lastClose>>

ArraySeparator ==
    /\ pc = "arr_next"
    /\ \E tok \in NextToks :
        /\ tok.k = ","
        /\ Consume(tok)
    /\ stack' = [stack EXCEPT ![Len(stack)] = array_action_value_separator(@)]
    /\ hist' = [hist EXCEPT ![Len(stack)] = AtSeparator(@, stack[Len(stack)])]
    /\ pc' = "elem_must"
    /\ UNCHANGED <<argv, free, argi, result, pieces, nscalars, err, out, lastClose>>

\* The content rule ends at the first token that continues no element list.
ArrayClose ==
    /\ pc \in {"elem_opt", "arr_next"}
    /\ \E tok \in (IF pc = "elem_opt" THEN ValueToks ELSE NextToks) :
        /\ IF pc = "elem_opt" THEN ~StartsValue(tok) ELSE tok.k # ","
        /\ la' = tok
    /\ Handoff(Front(stack), Front(hist),
               array_state_success(stack[Len(stack)], Top(Front(stack))))
    /\ lastClose' = [kind |-> "array",
                     handed |-> Len(hist[Len(stack)].handed),
                     h |-> AtClose(hist[Len(stack)], stack[Len(stack)]),
                     value |-> array_state_success(stack[Len(stack)],
                                                   Top(Front(stack))).result]
    /\ pc' = "arr_end"
    /\ UNCHANGED <<argv, free, argi, pieces, consumed, nscalars, err, out>>

EndArray ==
    /\ pc = "arr_end"
    /\ \E tok \in NextToks :
        /\ tok.k = "]"
        /\ Consume(tok)
    /\ pc' = AfterValue(stack)
    /\ UNCHANGED <<argv, free, argi, result, stack, pieces, nscalars, err, out,
                   hist, lastClose>>

(***************************************************************************)
(* json::object under control< object::content >: an object_state and      *)
(* object_action for the content rule, then must< end_object >.            *)
(***************************************************************************)
EnterObject ==
    /\ pc \in ValuePos
    /\ \E tok \in ValueToks :
        /\ tok.k = "{"
        /\ Consume(tok)
    /\ stack' = Append(stack, object_state_ctor)
    /\ hist' = Append(hist, NoHist)
    /\ pc' = "key_opt"
    /\ UNCHANGED <<argv, free, argi, result, pieces, nscalars, err, out, lastClose>>

KeyBegin ==
    /\ pc \in {"key_opt", "key_must"}
    /\ \E tok \in NextToks :
        /\ tok.k = "string"
        /\ Consume(tok)
        /\ pieces' = tok.v
    /\ pc' = "key"
    /\ UNCHANGED <<argv, free, argi, result, stack, nscalars, err, out, hist,
                   lastClose>>

KeyChar ==
    /\ pc = "key"
    /\ pieces # <<>>
    /\ ValidPiece(Head(pieces))
    /\ stack' = [stack EXCEPT ![Len(stack)] = unescape_append(@, Head(pieces))]
    /\ pieces' = Tail(pieces)
    /\ UNCHANGED <<argv, free, argi, pc, result, la, consumed, nscalars, err, out,
                   hist, lastClose>>

KeyEnd ==
    /\ pc = "key"
    /\ pieces = <<>>
    /\ pc' = "colon"
    /\ hist' = [hist EXCEPT ![Len(stack)].keys =
                                Append(@, Decode(consumed[Len(consumed)].v))]
    /\ UNCHANGED <<argv, free, argi, result, stack, pieces, la, consumed, nscalars,
                   err, out, lastClose>>

NameSeparator ==
    /\ pc = "colon"
    /\ \E tok \in NextToks :
        /\ tok.k = ":"
        /\ Consume(tok)
    /\ pc' = "member_value"
    /\ UNCHANGED <<argv, free, argi, result, stack, pieces, nscalars, err, out,
                   hist, lastClose>>

ObjectSeparator ==
    /\ pc = "obj_next"
    /\ \E tok \in NextToks :
        /\ tok.k = ","
        /\ Consume(tok)
    /\ stack' = [stack EXCEPT ![Len(stack)] = object_action_value_separator(@)]
    /\ hist' = [hist EXCEPT ![Len(stack)] = AtSeparator(@, stack[Len(stack)])]
    /\ pc' = "key_must"
    /\ UNCHANGED <<argv, free, argi, result, pieces, nscalars, err, out, lastClose>>

ObjectClose ==
    /\ pc \in {"key_opt", "obj_next"}
    /\ \E tok \in NextToks :
        /\ IF pc = "key_opt" THEN tok.k # "string" ELSE tok.k # ","
        /\ la' = tok
    /\ Handoff(Front(stack), Front(hist),
               object_state_success(stack[Len(stack)], Top(Front(stack))))
    /\ lastClose' = [kind |-> "object",
                     handed |-> Len(hist[Len(stack)].handed),
                     h |-> AtClose(hist[Len(stack)], stack[Len(stack)]),
                     value |-> object_state_success(stack[Len(stack)],
                                                    Top(Front(stack))).result]
    /\ pc' = "obj_end"
    /\ UNCHANGED <<argv, free, argi, pieces, consumed, nscalars, err, out>>

EndObject ==
    /\ pc = "obj_end"
    /\ \E tok \in NextToks :
        /\ tok.k = "}"
        /\ Consume(tok)
    /\ pc' = AfterValue(stack)
    /\ UNCHANGED <<argv, free, argi, result, stack, pieces, nscalars, err, out,
                   hist, lastClose>>

(***************************************************************************)
(* grammar: must< json::text, eof >.                                       *)
(***************************************************************************)
ParseReturn ==
    /\ pc = "eof"
    /\ Eof \in NextToks
    /\ pc' = "returned"
    /\ la' = NoTok
    /\ UNCHANGED <<argv, free, argi, result, stack, pieces, consumed, nscalars,
                   err, out, hist, lastClose>>

MustPos == {"text", "elem_must", "member_value", "arr_end", "key_must", "colon",
            "obj_end", "eof"}

Rejected(tok) ==
    CASE pc \in {"text", "elem_must", "member_value"} -> ~StartsValue(tok)
      [] pc = "arr_end" -> tok.k # "]"
      [] pc = "key_must" -> tok.k # "string"
      [] pc = "colon" -> tok.k # ":"
      [] pc = "obj_end" -> tok.k # "}"
      [] pc = "eof" -> tok.k # "eof"
      [] OTHER -> FALSE

\* A parse_error is thrown: matching stops where it is.
Throw ==
    /\ pc' = IF stack = <<>> THEN "failed" ELSE "unwinding"
    /\ err' = "parse_error"
    /\ pieces' = <<>>
    /\ la' = NoTok
    /\ UNCHANGED <<argv, free, argi, result, stack, consumed, nscalars, out, hist,
                   lastClose>>

\* Unwinding with a defect: the state converts and hands off as it is
\* destroyed, as if success() were run from a destructor.
Unwind_success ==
    /\ pc = "unwinding"
    /\ LET s == stack[Len(stack)]
           below == Top(Front(stack))
       IN  Handoff(Front(stack), Front(hist),
                   CASE s.kind = "string" -> string_state_success(s, below)
                     [] s.kind = "array" -> array_state_success(s, below)
                     [] s.kind = "object" -> object_state_success(s, below))
    /\ pc' = IF Len(stack) = 1 THEN "failed" ELSE "unwinding"
    /\ UNCHANGED <<argv, free, argi, pieces, la, consumed, nscalars, err, out,
                   lastClose>>

\* The exception leaves the innermost rule that has a state: the state is
\* destroyed, no success() is called.  Past the outermost it leaves parse()
\* and main.
Unwind ==
    /\ pc = "unwinding"
    /\ stack' = Front(stack)
    /\ hist' = Front(hist)
    /\ pc' = IF Len(stack) = 1 THEN "failed" ELSE "unwinding"
    /\ UNCHANGED <<argv, free, argi, result, pieces, la, consumed, nscalars, err,
                   out, lastClose>>

\* A must<> that does not match throws.
Fail ==
    /\ pc \in MustPos
    /\ \E tok \in NextToks : Rejected(tok)
    /\ Throw

\* must< escaped > inside string::content or key_content throws likewise.
EscapeFail ==
    /\ pc \in {"string", "key"}
    /\ pieces # <<>>
    /\ ~ValidPiece(Head(pieces))
    /\ Throw

Next ==
    \/ StartParse \/ LoopExit \/ AssertPrint
    \/ ValueNull \/ ValueTrue \/ ValueFalse \/ ValueNumber
    \/ EnterString \/ UnescapeChar \/ StringSuccess
    \/ EnterArray \/ ArraySeparator \/ ArrayClose \/ EndArray
    \/ EnterObject \/ KeyBegin \/ KeyChar \/ KeyEnd \/ NameSeparator
    \/ ObjectSeparator \/ ObjectClose \/ EndObject
    \/ ParseReturn \/ Fail \/ EscapeFail \/ Unwind

InitCommon ==
    /\ argi = 1
    /\ pc = "loop"
    /\ result = [kind |-> "result", result |-> None]
    /\ stack = <<>>
    /\ pieces = <<>>
    /\ la = NoTok
    /\ consumed = <<>>
    /\ nscalars = 0
    /\ err = "none"
    /\ out = <<>>
    /\ hist = <<>>
    /\ lastClose = [kind |-> "none", handed |-> 0, value |-> None, h |-> NoHist]

\* One file of any content within the bounds.
Init ==
    /\ argv = << <<>> >>
    /\ free = TRUE
    /\ InitCommon

Spec == Init /\ [][Next]_vars

(***************************************************************************)
(* Several files on one command line: main's loop over argv.  The files    *)
(* are drawn from a fixed set of texts.                                    *)
(***************************************************************************)
P(k) == Tok(k, <<>>)
Str(t) == Tok("string", t)
Num(t) == Tok("number", t)

Files ==
    { <<P("["), P("null"), P(","), P("true"), P("]")>>,
      <<P("{"), Str(<<"a">>), P(":"), P("false"), P(","), Str(<<"b">>), P(":"),
        Num(<<"7">>), P("}")>>,
      <<Str(<<"a">>)>>,
      <<P("["), P("["), P("]"), P(","), Str(<<"\\n">>), P("]")>>,
      <<P("["), Num(<<"7">>)>>,
      <<P("["), Str(<<"a", "\\q">>), P("]")>> }

InitRuns ==
    /\ argv \in UNION {[1..n -> Files] : n \in 1..MaxRuns}
    /\ free = FALSE
    /\ InitCommon

SpecRuns == InitRuns /\ [][Next]_vars

(***************************************************************************)
(* The states apart from the grammar: one array_state or object_state      *)
(* receiving the events of its rule in any order.                          *)
(***************************************************************************)
MaxEvents == 4

value_action(tok, st) ==
    CASE tok.k = "null" -> value_action_null(st)
      [] tok.k = "true" -> value_action_true(st)
      [] tok.k = "false" -> value_action_false(st)
      [] tok.k = "number" -> value_action_number(tok.v, st)

UnitStep(event, st) ==
    /\ pc = "unit"
    /\ nscalars < MaxEvents
    /\ nscalars' = nscalars + 1
    /\ stack' = <<st>>
    /\ hist' = <<CASE event = "handoff" ->
                        [hist[1] EXCEPT !.handed = Append(@, st.result)]
                   [] event = "separator" -> AtSeparator(hist[1], stack[1])
                   [] OTHER -> hist[1]>>
    /\ lastClose' = [kind |-> event, handed |-> nscalars, value |-> stack[1].result,
                     h |-> hist[1]]
    /\ UNCHANGED <<argv, free, argi, pc, result, pieces, la, consumed, err, out>>

UnitScalar ==
    \E tok \in Literals \cup Numbers : UnitStep("handoff", value_action(tok, stack[1]))

UnitString ==
    \E t \in {x \in StringTexts : ValidText(x)} :
        UnitStep("handoff",
                 string_state_success([kind |-> "string", unescaped |-> Decode(t)],
                                      stack[1]))

UnitArray == UnitStep("handoff", array_state_success(array_state_ctor, stack[1]))

UnitObject == UnitStep("handoff", object_state_success(object_state_ctor, stack[1]))

UnitSeparator ==
    UnitStep("separator",
             IF stack[1].kind = "array" THEN array_action_value_separator(stack[1])
             ELSE object_action_value_separator(stack[1]))

UnitKey ==
    /\ pc = "unit"
    /\ stack[1].kind = "object"
    /\ \E p \in {"a", "b"} : UnitStep("key", unescape_append(stack[1], p))

UnitClose ==
    /\ pc = "unit"
    /\ pc' = "unit_closed"
    /\ result' = IF stack[1].kind = "array" THEN array_state_success(stack[1], result)
                 ELSE object_state_success(stack[1], result)
    /\ stack' = <<>>
    /\ hist' = <<>>
    /\ lastClose' = [kind |-> "close", handed |-> nscalars, value |-> stack[1].result,
                     h |-> AtClose(hist[1], stack[1])]
    /\ UNCHANGED <<argv, free, argi, pieces, la, consumed, nscalars, err, out>>

NextUnit ==
    \/ UnitScalar \/ UnitString \/ UnitArray \/ UnitObject
    \/ UnitSeparator \/ UnitKey \/ UnitClose

InitUnit ==
    /\ argv = << <<>> >>
    /\ free = TRUE
    /\ argi = 1
    /\ pc = "unit"
    /\ result = [kind |-> "result", result |-> None]
    /\ stack \in {<<array_state_ctor>>, <<object_state_ctor>>}
    /\ pieces = <<>>
    /\ la = NoTok
    /\ consumed = <<>>
    /\ nscalars = 0
    /\ err = "none"
    /\ out = <<>>
    /\ hist = <<NoHist>>
    /\ lastClose = [kind |-> "none", handed |-> 0, value |-> None, h |-> NoHist]

SpecUnit == InitUnit /\ [][NextUnit]_vars

(***************************************************************************)
(* The structure of a token text, read from the text alone.                *)
(***************************************************************************)
RECURSIVE PValue(_, _), PElems(_, _, _), PMembers(_, _, _)
PValue(ts, i) ==
    IF ts[i].k = "["
    THEN IF ts[i + 1].k = "]"
         THEN [t |-> [type |-> "array", elems |-> <<>>], n |-> i + 2]
         ELSE PElems(ts, i + 1, <<>>)
    ELSE IF ts[i].k = "{"
    THEN IF ts[i + 1].k = "}"
         THEN [t |-> [type |-> "object", members |-> <<>>], n |-> i + 2]
         ELSE PMembers(ts, i + 1, <<>>)
    ELSE [t |-> [type |-> "scalar", tok |-> ts[i]], n |-> i + 1]
PElems(ts, i, acc) ==
    LET r == PValue(ts, i)
    IN  IF ts[r.n].k = ","
        THEN PElems(ts, r.n + 1, Append(acc, r.t))
        ELSE [t |-> [type |-> "array", elems |-> Append(acc, r.t)], n |-> r.n + 1]
PMembers(ts, i, acc) ==
    LET r == PValue(ts, i + 2)
        m == [key |-> Decode(ts[i].v), val |-> r.t]
    IN  IF ts[r.n].k = ","
        THEN PMembers(ts, r.n + 1, Append(acc, m))
        ELSE [t |-> [type |-> "object", members |-> Append(acc, m)], n |-> r.n + 1]

SrcTree(ts) == PValue(ts, 1).t

ScalarOf(tok) ==
    CASE tok.k = "null" -> null_json
      [] tok.k = "true" -> boolean_json(TRUE)
      [] tok.k = "false" -> boolean_json(FALSE)
      [] tok.k = "number" -> number_json(ss_extract(tok.v).v)
      [] tok.k = "string" -> string_json(Decode(tok.v))

MinOf(S) == CHOOSE x \in S : \A y \in S : x <= y
MaxOf(S) == CHOOSE x \in S : \A y \in S : x >= y

\* The members of a source object that carry key k, by position.
Carrying(src, k) == {j \in 1..Len(src.members) : src.members[j].key = k}

\* v has the structure of src; of the members that repeat a key, v holds the
\* first (pick = "first") or the last (pick = "last").
RECURSIVE Matches(_, _, _)
Matches(src, v, pick) ==
    CASE src.type = "scalar" -> v = ScalarOf(src.tok)
      [] src.type = "array" ->
            /\ v.type = "array"
            /\ Len(v.elems) = Len(src.elems)
            /\ \A i \in 1..Len(src.elems) : Matches(src.elems[i], v.elems[i], pick)
      [] src.type = "object" ->
            /\ v.type = "object"
            /\ DOMAIN v.members = {src.members[j].key : j \in 1..Len(src.members)}
            /\ \A k \in DOMAIN v.members :
                LET j == IF pick = "first" THEN MinOf(Carrying(src, k))
                         ELSE MaxOf(Carrying(src, k))
                IN  Matches(src.members[j].val, v.members[k], pick)

RECURSIVE NoDupKeys(_)
NoDupKeys(src) ==
    CASE src.type = "scalar" -> TRUE
      [] src.type = "array" -> \A i \in 1..Len(src.elems) : NoDupKeys(src.elems[i])
      [] src.type = "object" ->
            /\ \A i, j \in 1..Len(src.members) :
                src.members[i].key = src.members[j].key => i = j
            /\ \A i \in 1..Len(src.members) : NoDupKeys(src.members[i].val)

RECURSIVE Depth(_)
Depth(v) ==
    CASE v.type = "array" ->
            1 + (IF v.elems = <<>> THEN 0
                 ELSE MaxOf({Depth(v.elems[i]) : i \in 1..Len(v.elems)}))
      [] v.type = "object" ->
            1 + (IF DOMAIN v.members = {} THEN 0
                 ELSE MaxOf({Depth(v.members[k]) : k \in DOMAIN v.members}))
      [] OTHER -> 0

\* The composite rules a token text leaves open, outermost first.
RECURSIVE OpenRules(_)
OpenRules(ts) ==
    IF ts = <<>> THEN <<>>
    ELSE LET o == OpenRules(Front(ts))
             k == ts[Len(ts)].k
         IN  IF k = "[" THEN Append(o, "array")
             ELSE IF k = "{" THEN Append(o, "object")
             ELSE IF k \in {"]", "}"} THEN Front(o)
             ELSE o

\* The deepest nesting of composite rules in a token text.
MaxOpen(ts) == MaxOf({Len(OpenRules(SubSeq(ts, 1, n))) : n \in 0..Len(ts)})

Parsing == pc \notin {"loop", "returned", "unwinding", "failed", "abort", "exit",
                      "unit", "unit_closed"}

Returned == pc = "returned"

ExpectedType(tok) ==
    CASE tok.k = "[" -> "array"
      [] tok.k = "{" -> "object"
      [] tok.k \in {"true", "false"} -> "boolean"
      [] OTHER -> tok.k

(***************************************************************************)
(* Properties.                                                             *)
(***************************************************************************)

C2_FailedParseNoRoot == pc = "failed" => result.result = None

\* C3: when a parse returns from a text without repeated keys, the tree in
\* main's result has the structure of the text: the same nesting, every array
\* with its elements in source order, every object with the source's keys, each
\* mapped to its own value.
C3_RoundTripShape ==
    (Returned /\ NoDupKeys(SrcTree(consumed)))
        => Matches(SrcTree(consumed), result.result, "first")

C3_Witness ==
    /\ Returned
    /\ NoDupKeys(SrcTree(consumed))
    /\ result.result.type = "array"
    /\ Len(result.result.elems) = 2
    /\ result.result.elems[1].type = "object"
    /\ DOMAIN result.result.elems[1].members # {}
    /\ result.result.elems[2].type # "object"

\* C4: when the parse call returns, main's result holds a value, of the kind
\* the text starts with, no rule-scoped state is left, and main's assertion
\* never fails.
C4_RootOnSuccess ==
    /\ pc # "abort"
    /\ Returned =>
        /\ result.result # None
        /\ result.result.type = ExpectedType(consumed[1])
        /\ stack = <<>>
        /\ la = NoTok

C4_Witness ==
    /\ Returned
    /\ result.result.type = "array"
    /\ Len(consumed) = MaxLen

\* C5: once a number whose conversion overflows has been read, the parse has
\* failed with NumberOverflow.
C5_OverflowFails ==
    (/\ consumed # <<>>
     /\ consumed[Len(consumed)].k = "number"
     /\ ss_extract(consumed[Len(consumed)].v).failbit)
        => (pc = "failed" /\ err = "NumberOverflow")

\* C6: a composite that closes with no value handed in hands up an empty
\* container, and until a value is handed in its slot is empty and its container
\* is empty; while a nested rule is open, or a value is about to start, the slot
\* of every enclosing state is empty, so a finished sibling has been committed
\* before the next one starts.
C6_EmptyAndSiblings ==
    /\ (lastClose.kind = "array" /\ lastClose.handed = 0)
            => lastClose.value = array_json(<<>>)
    /\ (lastClose.kind = "object" /\ lastClose.handed = 0)
            => lastClose.value = object_json(EmptyMap)
    /\ \A i \in 1..Len(stack) :
        /\ (stack[i].kind = "array" /\ hist[i].handed = <<>>)
                => (stack[i].result = None /\ stack[i].array = <<>>)
        /\ (stack[i].kind = "object" /\ hist[i].handed = <<>>)
                => (stack[i].result = None /\ DOMAIN stack[i].object = {})
        /\ (i < Len(stack) /\ stack[i].kind # "string") => stack[i].result = None
    /\ (Parsing /\ stack # <<>>) => result.result = None
    /\ (pc \in {"elem_opt", "elem_must", "key_opt", "key_must", "key", "colon",
                "member_value"}) => stack[Len(stack)].result = None

C6_Witness ==
    /\ Returned
    /\ result.result =
        array_json(<<array_json(<<>>), array_json(<<object_json(EmptyMap)>>)>>)

\* C7: during a parse the composite states on the stack are exactly the
\* composite content rules the text read so far leaves open, outermost first,
\* and when the parse returns (no repeated keys) the depth of the tree is the
\* deepest nesting of the text.
C7_StackMatchesRules ==
    /\ Parsing =>
        LET open == OpenRules(consumed)
            live == IF pc \in {"arr_end", "obj_end"} THEN Front(open) ELSE open
            comp == IF stack # <<>> /\ stack[Len(stack)].kind = "string"
                    THEN Front(stack) ELSE stack
        IN  /\ Len(comp) = Len(live)
            /\ \A i \in 1..Len(comp) : comp[i].kind = live[i]
    /\ (Returned /\ NoDupKeys(SrcTree(consumed)))
            => Depth(result.result) = MaxOpen(consumed)

C7_Witness ==
    /\ Returned
    /\ result.result =
        array_json(<<array_json(<<array_json(<<array_json(<<>>)>>)>>)>>)

\* C8: in a run over several files every printed tree is the tree of its own
\* text, two files with the same text print equal trees, and every parse starts
\* with an empty result and no rule-scoped state.
C8_IsolatedParses ==
    /\ \A i \in 1..Len(out) : Matches(SrcTree(out[i].text), out[i].tree, "first")
    /\ \A i, j \in 1..Len(out) : out[i].text = out[j].text => out[i].tree = out[j].tree
    /\ pc = "text" => (result.result = None /\ stack = <<>> /\ consumed = <<>>)
    /\ (Parsing /\ stack # <<>>) => result.result = None

C8_Witness ==
    /\ Len(out) = 3
    /\ out[1].text = out[3].text
    /\ out[2].text # out[1].text

\* C9: after a nested value is handed to a state whose slot was occupied, the
\* container holds the value that was in the slot and the slot holds a value.
C9_OccupiedSlotCommitted ==
    (/\ pc = "unit"
     /\ lastClose.kind = "handoff"
     /\ lastClose.value # None)
        => /\ stack[1].result # None
           /\ stack[1].kind = "array"
                => \E i \in 1..Len(stack[1].array) : stack[1].array[i] = lastClose.value
           /\ stack[1].kind = "object"
                => \E k \in DOMAIN stack[1].object : stack[1].object[k] = lastClose.value

\* C10: of the values handed to a live array_state, in order, its array holds
\* exactly those followed by a separator, and its slot holds the one value not
\* yet followed by a separator, or nothing.
C10_ArrayBuilder ==
    \A i \in 1..Len(stack) :
        stack[i].kind = "array" =>
            /\ hist[i].seps <= Len(hist[i].handed)
            /\ Len(hist[i].handed) <= hist[i].seps + 1
            /\ stack[i].array = SubSeq(hist[i].handed, 1, hist[i].seps)
            /\ stack[i].result =
                IF Len(hist[i].handed) > hist[i].seps
                THEN hist[i].handed[Len(hist[i].handed)] ELSE None

C10_Witness ==
    \E i \in 1..Len(stack) :
        /\ stack[i].kind = "array"
        /\ Len(stack[i].array) = 2
        /\ stack[i].array[1] # stack[i].array[2]
        /\ stack[i].result # None

\* The first of the keys read for an object_state that equals k.
FirstAt(keys, k) == MinOf({j \in 1..Len(keys) : keys[j] = k})

\* In every live object_state the mapping holds exactly the keys of the
\* members already followed by a separator, each with the value handed in for
\* it (a key enters only with its value, at a separator); where a key is about
\* to start, unescaped and the slot are empty; while a key is read, unescaped
\* holds the decoded part of this key and nothing else; from the end of the
\* key to the next commit, unescaped is this member's key.
C11_LiveObjects ==
    Parsing =>
        \A i \in 1..Len(stack) :
            stack[i].kind = "object" =>
                LET s == stack[i]
                    h == hist[i]
                    top == i = Len(stack)
                IN  /\ DOMAIN s.object = {h.keys[j] : j \in 1..h.seps}
                    /\ \A k \in DOMAIN s.object :
                            s.object[k] = h.handed[FirstAt(h.keys, k)]
                    /\ IF top /\ pc \in {"key_opt", "key_must"}
                       THEN /\ s.unescaped = <<>>
                            /\ s.result = None
                            /\ Len(h.keys) = h.seps
                       ELSE IF top /\ pc = "key"
                       THEN /\ s.unescaped \o Decode(pieces)
                                    = Decode(consumed[Len(consumed)].v)
                            /\ s.result = None
                            /\ Len(h.keys) = h.seps
                       ELSE /\ Len(h.keys) = h.seps + 1
                            /\ s.unescaped = h.keys[Len(h.keys)]

\* At the close of object::content: the finished mapping holds the keys
\* of all members read, the last one entered with its value by success().
C11_KeyWithValueAtClose ==
    lastClose.kind = "object" =>
        LET h == lastClose.h
            m == lastClose.value.members
        IN  /\ Len(h.handed) = Len(h.keys)
            /\ DOMAIN m = {h.keys[j] : j \in 1..Len(h.keys)}
            /\ \A k \in DOMAIN m : m[k] = h.handed[FirstAt(h.keys, k)]

\* C11: a key enters the mapping only together with its value, at a separator
\* or at the close of the object; after each insertion at a separator
\* unescaped and the slot are empty, and the next key is decoded into an
\* empty unescaped.
C11_KeyWithValue == C11_LiveObjects /\ C11_KeyWithValueAtClose

C11_Witness ==
    /\ pc = "colon"
    /\ stack # <<>>
    /\ stack[Len(stack)].kind = "object"
    /\ hist[Len(stack)].seps = 1
    /\ <<"a">> \in DOMAIN stack[Len(stack)].object
    /\ stack[Len(stack)].unescaped = <<"a", "b">>

\* C12: a finished array holds, in order, exactly what the slot held each time
\* a commit was due (at each separator, and at the close if the slot was
\* occupied), a finished object the pairs likewise; a close with the slot
\* empty, as directly after a separator, adds nothing; and no more values are
\* committed than were handed in, so none is committed twice.
C12_CommittedOnce ==
    (pc = "unit_closed") =>
        LET h == lastClose.h
            v == result.result
            n == Len(h.commits)
        IN  /\ n = h.seps + (IF lastClose.value # None THEN 1 ELSE 0)
            /\ Cardinality({j \in 1..n : h.commits[j].value # None}) <= Len(h.handed)
            /\ v.type = "array" =>
                    v.elems = [j \in 1..n |-> h.commits[j].value]
            /\ v.type = "object" =>
                    /\ DOMAIN v.members = {h.commits[j].key : j \in 1..n}
                    /\ \A k \in DOMAIN v.members :
                            v.members[k] =
                                h.commits[MinOf({j \in 1..n : h.commits[j].key = k})].value

\* A close directly after a separator, the slot cleared by it.
C12_Witness ==
    /\ pc = "unit_closed"
    /\ lastClose.value = None
    /\ lastClose.h.seps = 2
    /\ result.result.type = "array"
    /\ Len(result.result.elems) = 2
    /\ \A j \in 1..2 : result.result.elems[j] # None

\* The step handles a value separator.
SeparatorStep ==
    /\ Len(consumed') = Len(consumed) + 1
    /\ consumed'[Len(consumed')].k = ","

\* C13: within a parse, a step changes no state below the innermost one it
\* leaves open, and main's result only when it leaves none open; when a
\* string_state, array_state or object_state ends with success, its value,
\* of its own type, is in the slot of the state that was directly below it
\* (or in main's result), which is otherwise unchanged; a value separator is
\* handled by the state of the innermost composite rule the text has open,
\* which is an outer one again after an inner rule has been closed.
C13_Routing ==
    [][(Parsing /\ Parsing') =>
        LET n == Len(stack)
            m == Len(stack')
        IN  /\ \A i \in 1..(m - 1) : i <= n /\ stack'[i] = stack[i]
            /\ m > 0 => result' = result
            /\ m = n - 1 =>
                  LET below == IF m = 0 THEN result ELSE stack[m]
                      after == IF m = 0 THEN result' ELSE stack'[m]
                  IN  /\ after.result.type = stack[n].kind
                      /\ after = [below EXCEPT !.result = after.result]
            /\ SeparatorStep =>
                  /\ m = n
                  /\ n = Len(OpenRules(consumed))
                  /\ stack[n].kind = OpenRules(consumed)[n]
                  /\ stack'[n].result = None
                  /\ stack[n].kind = "array" =>
                        stack'[n].array = Append(stack[n].array, stack[n].result)
                  /\ stack[n].kind = "object" =>
                        /\ DOMAIN stack'[n].object =
                                DOMAIN stack[n].object \cup {stack[n].unescaped}
                        /\ stack'[n].unescaped = <<>>
      ]_vars

\* An outer array_state has handled a separator after an inner object, itself
\* given a string, was closed and handed to it.
C13_Witness ==
    /\ pc = "elem_must"
    /\ Len(stack) = 2
    /\ stack[1].kind = "array"
    /\ stack[2].kind = "array"
    /\ stack[1].array = <<>>
    /\ Len(stack[2].array) = 1
    /\ stack[2].array[1].type = "object"
    /\ \E k \in DOMAIN stack[2].array[1].members :
            stack[2].array[1].members[k].type = "string"

\* C14: a step that reads a key changes nothing but unescaped of the
\* innermost state, an object_state, appending the decoded piece; its slot,
\* its mapping, the states below and main's result are as before.  A string
\* value starts a new string_state with unescaped empty; while it is read only
\* that state's unescaped changes; on success the state is gone and the state
\* below has the string_json of the decoded text in its slot and is otherwise
\* unchanged, its unescaped (the member's key, for an object) included.
C14_KeyAndValueApart ==
    [][(Parsing /\ Parsing') =>
        LET n == Len(stack)
        IN  /\ (pc' = "key" \/ pc = "key") =>
                  /\ Len(stack') = n
                  /\ stack[n].kind = "object"
                  /\ stack' = [stack EXCEPT ![n].unescaped = stack'[n].unescaped]
                  /\ result' = result
                  /\ stack'[n].unescaped =
                        IF pc = "key" /\ pieces' # pieces
                        THEN stack[n].unescaped \o Unescape(Head(pieces))
                        ELSE stack[n].unescaped
            /\ (pc # "string" /\ pc' = "string") =>
                  /\ stack' = Append(stack, [kind |-> "string", unescaped |-> <<>>])
                  /\ result' = result
            /\ (pc = "string" /\ pc' = "string") =>
                  /\ stack' = [stack EXCEPT ![n].unescaped =
                                                @ \o Unescape(Head(pieces))]
                  /\ result' = result
            /\ (pc = "string" /\ pc' # "string") =>
                  LET text == string_json(Decode(consumed[Len(consumed)].v))
                  IN  IF n = 1
                      THEN /\ stack' = <<>>
                           /\ result' = [result EXCEPT !.result = text]
                      ELSE /\ stack' = [Front(stack) EXCEPT ![n - 1].result = text]
                           /\ result' = result
      ]_vars

\* An object_state after the success of a string value: the key a in
\* unescaped, the value ab in the slot.
C14_Witness ==
    /\ pc = "obj_next"
    /\ stack # <<>>
    /\ stack[Len(stack)].kind = "object"
    /\ stack[Len(stack)].unescaped = <<"a">>
    /\ stack[Len(stack)].result = string_json(<<"a", "b">>)

(***************************************************************************)
(* Ownership, by counting: the json_base objects made so far, read from    *)
(* the text, against the places that hold one.                             *)
(***************************************************************************)
RECURSIVE SumOver(_, _)
SumOver(f, S) ==
    IF S = {} THEN 0
    ELSE LET x == CHOOSE y \in S : TRUE IN f[x] + SumOver(f, S \ {x})

\* The objects reachable from one pointer: the value and all below it.
RECURSIVE Nodes(_)
Nodes(v) ==
    CASE v.type = "nullptr" -> 0
      [] v.type = "array" ->
            1 + SumOver([j \in 1..Len(v.elems) |-> Nodes(v.elems[j])], 1..Len(v.elems))
      [] v.type = "object" ->
            1 + SumOver([k \in DOMAIN v.members |-> Nodes(v.members[k])],
                        DOMAIN v.members)
      [] OTHER -> 1

\* What one rule-scoped state holds: its slot and, for a composite, its own
\* container with everything committed to it.
HeldBy(s) ==
    CASE s.kind = "array" -> Nodes(s.result) + Nodes(array_json(s.array))
      [] s.kind = "object" -> Nodes(s.result) + Nodes(object_json(s.object))
      [] OTHER -> 0

Held ==
    Nodes(result.result)
        + SumOver([i \in 1..Len(stack) |-> HeldBy(stack[i])], 1..Len(stack))

IsKeyAt(ts, i) == ts[i].k = "string" /\ i < Len(ts) /\ ts[i + 1].k = ":"

\* The objects the text read so far has had made: one per literal and number,
\* one per [ and {, one per string value whose content rule has ended.
Constructed ==
    Cardinality({i \in 1..Len(consumed) :
                    /\ StartsValue(consumed[i])
                    /\ ~IsKeyAt(consumed, i)
                    /\ (i = Len(consumed) /\ consumed[i].k = "string")
                            => pc \notin {"string", "key", "colon"}})

NoRepeatedKey ==
    \A i, j \in 1..Len(consumed) :
        (IsKeyAt(consumed, i) /\ IsKeyAt(consumed, j) /\ i # j)
            => Decode(consumed[i].v) # Decode(consumed[j].v)

\* C15: the slots, sequences and mappings of main's result and of all live
\* states together hold no more objects than have been made, so none is held
\* by two places: not by the slot and the container after a commit, not by a
\* state and its parent after the handoff; and exactly as many where no
\* repeated key has had a pair dropped.
C15_ExclusiveOwnership ==
    (Parsing \/ Returned) =>
        /\ Held <= Constructed
        /\ NoRepeatedKey => Held = Constructed

\* An inner array, one element committed by its success, has just been handed
\* to an outer array_state that has committed an element itself.
C15_Witness ==
    /\ pc = "arr_end"
    /\ stack # <<>>
    /\ stack[Len(stack)].kind = "array"
    /\ Len(stack[Len(stack)].array) = 1
    /\ stack[Len(stack)].result.type = "array"
    /\ Len(stack[Len(stack)].result.elems) = 1

\* The step reads the token that enters a rule with a rule-scoped state.
EntersRule ==
    /\ Len(consumed') = Len(consumed) + 1
    /\ \/ consumed'[Len(consumed')].k \in {"[", "{"}
       \/ consumed'[Len(consumed')].k = "string" /\ pc' = "string"

\* The state a rule entered with token tok starts with.
FreshFor(tok) ==
    CASE tok.k = "[" -> [kind |-> "array", result |-> None, array |-> <<>>]
      [] tok.k = "{" -> [kind |-> "object", result |-> None, unescaped |-> <<>>,
                         object |-> EmptyMap]
      [] tok.k = "string" -> [kind |-> "string", unescaped |-> <<>>]

\* The step is the successful end of a content rule.
ContentEnds ==
    \/ pc' \in {"arr_end", "obj_end"}
    \/ pc = "string" /\ pc' # "string"

\* C16: within a parse a state is added exactly by the step that enters its
\* rule, new and empty, and removed exactly by the step that ends its content
\* rule; a thrown parse_error changes no state and not main's result; as the
\* exception leaves a rule its state is removed with no success run: the
\* states below (slot, container, unescaped) and main's result are as before;
\* and once parse() has returned or thrown through, no state is left.
C16_RuleScoped ==
    [][LET n == Len(stack)
           m == Len(stack')
       IN  /\ (Parsing /\ Parsing') =>
                /\ m = n + 1 <=> EntersRule
                /\ m = n + 1 =>
                        stack' = Append(stack, FreshFor(consumed'[Len(consumed')]))
                /\ m = n - 1 <=> ContentEnds
                /\ m \in {n - 1, n, n + 1}
           /\ (Parsing /\ pc' \in {"unwinding", "failed"}) =>
                /\ stack' = stack
                /\ result' = result
                /\ lastClose' = lastClose
           /\ pc = "unwinding" =>
                /\ stack' = Front(stack)
                /\ result' = result
                /\ lastClose' = lastClose
                /\ pc' = IF m = 0 THEN "failed" ELSE "unwinding"
           /\ pc' \in {"returned", "failed", "loop", "abort", "exit"} => stack' = <<>>
      ]_vars

\* The exception thrown inside a string's content has left the string's rule
\* and is about to leave the array's: the array_state is as it was.
C16_Witness ==
    /\ pc = "unwinding"
    /\ Len(stack) = 1
    /\ stack[1].kind = "array"
    /\ Len(stack[1].array) = 1
    /\ stack[1].result = None
    /\ consumed[Len(consumed)] = Tok("string", <<"a", "\\q">>)

\* v is a value with no null pointer anywhere inside.
RECURSIVE NoNull(_)
NoNull(v) ==
    CASE v.type = "nullptr" -> FALSE
      [] v.type = "array" -> \A j \in 1..Len(v.elems) : NoNull(v.elems[j])
      [] v.type = "object" -> \A k \in DOMAIN v.members : NoNull(v.members[k])
      [] OTHER -> TRUE

\* C17: wherever a separator can be handled next the slot is occupied; so in
\* every state, also after a parse_error and while it unwinds, the sequence of
\* every array_state, the mapping of every object_state, every slot that is
\* occupied, main's result and the printed trees hold no null pointer.
C17_NoEmptyEntries ==
    /\ pc \in {"arr_next", "obj_next"} => stack[Len(stack)].result # None
    /\ \A i \in 1..Len(stack) :
            /\ stack[i].kind = "array" => NoNull(array_json(stack[i].array))
            /\ stack[i].kind = "object" => NoNull(object_json(stack[i].object))
            /\ (stack[i].kind # "string" /\ stack[i].result # None)
                    => NoNull(stack[i].result)
    /\ result.result # None => NoNull(result.result)
    /\ \A i \in 1..Len(out) : NoNull(out[i].tree)

\* A trailing comma: two separators handled, then the parse_error.
C17_Witness ==
    /\ pc = "unwinding"
    /\ Len(stack) = 1
    /\ stack[1].kind = "array"
    /\ Len(stack[1].array) = 2
    /\ stack[1].result = None
    /\ consumed[Len(consumed)].k = ","

====
